---- MODULE Spec2Model ----
(***************************************************************************)
(* A model of NGramMarkovChain (src/models/smoothed_n_gram.py): an n-gram   *)
(* Markov chain with Laplace smoothing.  The state is one model instance;  *)
(* the operations are train, predict_next_word and generate_sentence.      *)
(* A Python str that is a text is a sequence of one-character strings; a   *)
(* token is a string.  Every random.choice / random.choices is a           *)
(* nondeterministic choice over the outcomes of positive probability.      *)
(***************************************************************************)
EXTENDS Integers, Sequences, FiniteSets, TLC

VARIABLES
    n,                \* self.n
    alpha,            \* self.alpha (0: no smoothing, 1: any positive value)
    transitions,      \* self.transitions: context -> (word -> count)
    starting_ngrams,  \* self.starting_ngrams
    vocabulary,       \* self.vocabulary
    trained,          \* history: the token sequence of every train call
    pc,               \* "idle": no call is running; "pad", "extend": inside
                      \* generate_sentence; "done": a call has returned
    sentence,         \* generate_sentence's local list
    remaining,        \* iterations left of the loop of line 113
    op,               \* the operation called last
    args,             \* its arguments
    ret,              \* its return value
    stdout,           \* what it printed
    branch,           \* the branch predict_next_word took last
    support           \* the words the last predict_next_word could return

vars == <<n, alpha, transitions, starting_ngrams, vocabulary, trained, pc,
          sentence, remaining, op, args, ret, stdout, branch, support>>

model == <<transitions, starting_ngrams, vocabulary>>

config == <<n, alpha>>

-----------------------------------------------------------------------------
(* Bounds of the model.                                                    *)

MaxTrains == 2

MaxWords == 3

MaxLength == 3

Ns == {1, 2}

Alphas == {0, 1}

Tokens == {"a", "b"}

Unseen == "z"

None == "None"

NotTrainedYet == "Model not trained yet."

NotTrainedProperly == "Model not trained properly."

TextTooShort == "Warning: Text too short to train n-gram model"

ContextTooShort == "Warning: Context needs n words"

ValueError == "ValueError"

-----------------------------------------------------------------------------
(* Helpers.                                                                *)

Range(s) == {s[i] : i \in DOMAIN s}

Max(a, b) == IF a > b THEN a ELSE b

SeqsUpTo(S, k) == UNION {[1..m -> S] : m \in 0..k}

\* s[-k:] of Python, for k >= 1
Last(s, k) == IF Len(s) <= k THEN s ELSE SubSeq(s, Len(s) - k + 1, Len(s))

\* s[:k] of Python, for k >= 0
First(s, k) == IF Len(s) <= k THEN s ELSE SubSeq(s, 1, k)

EmptyDict == [k \in {} |-> 0]

RECURSIVE Sum(_)
Sum(f) ==
    IF DOMAIN f = {} THEN 0
    ELSE LET k == CHOOSE x \in DOMAIN f : TRUE
         IN  f[k] + Sum([x \in DOMAIN f \ {k} |-> f[x]])

-----------------------------------------------------------------------------
(* Tokenizer: re.findall(r"\b\w+\b", text.lower()).                         *)

WordChars == {"a", "b", "A", "B"}

Lower(c) == CASE c = "A" -> "a" [] c = "B" -> "b" [] OTHER -> c

RECURSIVE FindAll(_, _, _)
FindAll(text, i, cur) ==
    LET flush == IF cur = "" THEN <<>> ELSE <<cur>>
    IN  IF i > Len(text) THEN flush
        ELSE IF text[i] \in WordChars
             THEN FindAll(text, i + 1, cur \o Lower(text[i]))
             ELSE flush \o FindAll(text, i + 1, "")

Tokenize(text) == FindAll(text, 1, "")

\* A text with the given words: first letter capitalised, words separated by
\* a space, a full stop at the end.
Upper(c) == CASE c = "a" -> "A" [] c = "b" -> "B" [] OTHER -> c

RECURSIVE Spaced(_)
Spaced(ws) ==
    IF ws = <<>> THEN <<>>
    ELSE IF Len(ws) = 1 THEN <<ws[1]>>
    ELSE <<ws[1], " ">> \o Spaced(Tail(ws))

Render(ws) ==
    IF ws = <<>> THEN <<>>
    ELSE <<Upper(ws[1])>> \o Tail(Spaced(ws)) \o <<".">>

Texts == {Render(ws) : ws \in SeqsUpTo(Tokens, MaxWords)}

-----------------------------------------------------------------------------
(* train                                                                   *)

get_ngrams(words) ==
    [i \in 1..Max(0, Len(words) - n + 1) |-> SubSeq(words, i, i + n - 1)]

\* the length test is off by one
TooShortOffByOne(words) == Len(words) < n

\* line 31
TooShort(words) == Len(words) < n + 1

\* self.transitions[c][w] = 1: the count is set, not added to
IncrementReset(t, c, w) ==
    LET row    == IF c \in DOMAIN t THEN t[c] ELSE EmptyDict
        newrow == [x \in DOMAIN row \cup {w} |-> IF x = w THEN 1 ELSE row[x]]
    IN  [k \in DOMAIN t \cup {c} |-> IF k = c THEN newrow ELSE t[k]]

\* self.transitions[c][w] += 1 on the nested defaultdict
Increment(t, c, w) ==
    LET row    == IF c \in DOMAIN t THEN t[c] ELSE EmptyDict
        count  == IF w \in DOMAIN row THEN row[w] ELSE 0
        newrow == [x \in DOMAIN row \cup {w} |->
                      IF x = w THEN count + 1 ELSE row[x]]
    IN  [k \in DOMAIN t \cup {c} |-> IF k = c THEN newrow ELSE t[k]]

\* range(len(ngrams) - 2): the loop stops one n-gram early
IterationsStopEarly(ngrams) == Max(0, Len(ngrams) - 2)

\* range(len(ngrams) - 1): the number of iterations of the loop of line 38
Iterations(ngrams) == Max(0, Len(ngrams) - 1)

RECURSIVE RecordTransitions(_, _, _, _)
RecordTransitions(t, words, ngrams, i) ==
    IF i > Iterations(ngrams) THEN t
    ELSE RecordTransitions(Increment(t, ngrams[i], words[i + n]),
                           words, ngrams, i + 1)

Train(text) ==
    LET words == Tokenize(text)
    IN  /\ pc = "idle"
        /\ Len(trained) < MaxTrains
        /\ vocabulary' = vocabulary \cup Range(words)
        /\ IF TooShort(words)
           THEN /\ stdout' = TextTooShort
                /\ UNCHANGED <<starting_ngrams, transitions>>
           ELSE /\ stdout' = ""
                /\ starting_ngrams' = Append(starting_ngrams, First(words, n))
                /\ transitions' =
                      RecordTransitions(transitions, words, get_ngrams(words), 1)
        /\ trained' = Append(trained, words)
        /\ op' = "train"
        /\ args' = text
        /\ ret' = None
        /\ branch' = ""
        /\ support' = {}
        /\ pc' = "done"
        /\ UNCHANGED <<config, sentence, remaining>>

-----------------------------------------------------------------------------
(* predict_next_word                                                       *)

ZeroDivisionError == "ZeroDivisionError"

IndexError == "IndexError"

Exceptions == {ValueError, ZeroDivisionError, IndexError}

\* self.transitions[c] on the defaultdict: a missing key is inserted with an
\* empty row
GetItem(t, c) ==
    IF c \in DOMAIN t THEN [value |-> t[c], dict |-> t]
    ELSE [value |-> EmptyDict,
          dict  |-> [k \in DOMAIN t \cup {c} |->
                        IF k = c THEN EmptyDict ELSE t[k]]]

\* `if not self.transitions[context]` instead of the membership test
ProbeByGetItem(t, c) ==
    LET got == GetItem(t, c)
    IN  [seen |-> DOMAIN got.value # {}, dict |-> got.dict]

\* `context not in self.transitions`: a membership test, nothing is inserted
Probe(t, c) == [seen |-> c \in DOMAIN t, dict |-> t]

\* the fallback always gives up
FallbackAbsent == {None}

\* lines 60-65: the outcomes for a context that is no key of the table
Fallback ==
    IF vocabulary # {} THEN vocabulary
    ELSE IF starting_ngrams # <<>>
         THEN {starting_ngrams[i][Len(starting_ngrams[i])] :
                   i \in DOMAIN starting_ngrams}
         ELSE {None}

\* the smoothing term is left out
WeightUnsmoothed(count) == count

\* line 75: the numerator of the probability of a word
Weight(count) == count + alpha

\* lines 67-81: the outcomes for a context with the follower table word_counts
Sample(word_counts) ==
    LET total_count == Sum(word_counts)
        denominator == total_count + alpha * Cardinality(vocabulary)
        get(word)   == IF word \in DOMAIN word_counts
                       THEN word_counts[word] ELSE 0
        positive    == {word \in vocabulary : Weight(get(word)) > 0}
    IN  IF vocabulary = {} THEN {IndexError}
        ELSE IF denominator = 0 THEN {ZeroDivisionError}
        ELSE IF positive = {} THEN {ValueError}
        ELSE positive

PredictNextWord(context) ==
    IF Len(context) < n
    THEN [rets |-> {None}, dict |-> transitions,
          stdout |-> ContextTooShort, branch |-> "short"]
    ELSE LET ctx   == Last(context, n)
             probe == Probe(transitions, ctx)
         IN  IF ~probe.seen
             THEN [rets |-> Fallback, dict |-> probe.dict,
                   stdout |-> "", branch |-> "unseen"]
             ELSE LET got == GetItem(probe.dict, ctx)
                  IN  [rets |-> Sample(got.value), dict |-> got.dict,
                       stdout |-> "", branch |-> "seen"]

CtxTokens == Tokens \cup {Unseen}

Predict(context) ==
    LET r == PredictNextWord(context)
    IN  /\ pc = "idle"
        /\ ret' \in r.rets
        /\ transitions' = r.dict
        /\ stdout' = r.stdout
        /\ branch' = r.branch
        /\ support' = r.rets
        /\ op' = "predict"
        /\ args' = context
        /\ pc' = "done"
        /\ UNCHANGED <<config, starting_ngrams, vocabulary, trained, sentence,
                       remaining>>

-----------------------------------------------------------------------------
(* generate_sentence                                                       *)

RECURSIVE Join(_)
Join(s) ==
    IF s = <<>> THEN ""
    ELSE IF Len(s) = 1 THEN s[1]
    ELSE s[1] \o " " \o Join(Tail(s))

\* `if not self.vocabulary`: the wrong collection is tested
UntrainedByVocabulary(t) == vocabulary = {}

\* `if not self.transitions`
Untrained(t) == DOMAIN t = {}

\* range(max_length - len(sentence))
LoopCount(max_length, s) == Max(0, max_length - Len(s))

\* lines 91-111: the call, up to the choice of the initial sequence
Generate(start_words_is_None, start_words, max_length) ==
    /\ pc = "idle"
    /\ op' = "generate"
    /\ args' = [start_words_is_None |-> start_words_is_None,
                start_words |-> start_words, max_length |-> max_length]
    /\ stdout' = ""
    /\ branch' = ""
    /\ support' = {}
    /\ IF Untrained(transitions)
       THEN /\ ret' = NotTrainedYet
            /\ sentence' = <<>>
            /\ remaining' = 0
            /\ pc' = "done"
       ELSE IF start_words_is_None \/ Len(start_words) < n
       THEN IF starting_ngrams = <<>>
            THEN /\ ret' = NotTrainedProperly
                 /\ sentence' = <<>>
                 /\ remaining' = 0
                 /\ pc' = "done"
            ELSE IF start_words_is_None
            THEN /\ \E i \in DOMAIN starting_ngrams :
                        sentence' = starting_ngrams[i]
                 /\ remaining' = LoopCount(max_length, sentence')
                 /\ ret' = None
                 /\ pc' = "extend"
            ELSE /\ sentence' = start_words
                 /\ remaining' = 0
                 /\ ret' = None
                 /\ pc' = "pad"
       ELSE /\ sentence' = Last(start_words, n)
            /\ remaining' = LoopCount(max_length, sentence')
            /\ ret' = None
            /\ pc' = "extend"
    /\ UNCHANGED <<config, model, trained>>

\* lines 104-106: one iteration of the padding loop
Pad ==
    /\ pc = "pad"
    /\ \E i \in DOMAIN starting_ngrams :
          sentence' = Append(sentence, starting_ngrams[i][Len(sentence) + 1])
    /\ IF Len(sentence') < n
       THEN /\ pc' = "pad"
            /\ remaining' = 0
       ELSE /\ pc' = "extend"
            /\ remaining' = LoopCount(args.max_length, sentence')
    /\ UNCHANGED <<config, model, trained, op, args, ret, stdout, branch,
                   support>>

\* lines 113-120: one iteration of the extension loop
Extend ==
    /\ pc = "extend"
    /\ remaining > 0
    /\ LET r == PredictNextWord(Last(sentence, n))
       IN  /\ transitions' = r.dict
           /\ stdout' = r.stdout
           /\ branch' = r.branch
           /\ support' = r.rets
           /\ \E next_word \in r.rets :
                 IF next_word \in Exceptions
                 THEN /\ ret' = next_word
                      /\ pc' = "done"
                      /\ UNCHANGED <<sentence, remaining>>
                 ELSE IF next_word = None
                 THEN /\ ret' = Join(sentence)
                      /\ pc' = "done"
                      /\ UNCHANGED <<sentence, remaining>>
                 ELSE /\ sentence' = Append(sentence, next_word)
                      /\ remaining' = remaining - 1
                      /\ UNCHANGED <<ret, pc>>
    /\ UNCHANGED <<config, starting_ngrams, vocabulary, trained, op, args>>

\* line 122: the loop is over
Return ==
    /\ pc = "extend"
    /\ remaining = 0
    /\ ret' = Join(sentence)
    /\ pc' = "done"
    /\ UNCHANGED <<config, model, trained, sentence, remaining, op, args,
                   stdout, branch, support>>

\* The caller has taken the result of the call; the next call can start.
Resume ==
    /\ pc = "done"
    /\ pc' = "idle"
    /\ op' = ""
    /\ args' = <<>>
    /\ ret' = None
    /\ stdout' = ""
    /\ branch' = ""
    /\ support' = {}
    /\ sentence' = <<>>
    /\ remaining' = 0
    /\ UNCHANGED <<config, model, trained>>

-----------------------------------------------------------------------------

Init ==
    /\ n \in Ns
    /\ alpha \in Alphas
    /\ transitions = EmptyDict
    /\ starting_ngrams = <<>>
    /\ vocabulary = {}
    /\ trained = <<>>
    /\ pc = "idle"
    /\ sentence = <<>>
    /\ remaining = 0
    /\ op = ""
    /\ args = <<>>
    /\ ret = None
    /\ stdout = ""
    /\ branch = ""
    /\ support = {}

Next ==
    \/ \E text \in Texts : Train(text)
    \/ \E context \in SeqsUpTo(CtxTokens, n + 1) : Predict(context)
    \/ \E max_length \in 0..MaxLength :
          \/ Generate(TRUE, <<>>, max_length)
          \/ \E start_words \in SeqsUpTo(CtxTokens, n + 1) :
                Generate(FALSE, start_words, max_length)
    \/ Pad
    \/ Extend
    \/ Return
    \/ Resume

Spec == Init /\ [][Next]_vars

\* The training phase alone: every sequence of train calls.
NextTrain ==
    \/ \E text \in Texts : Train(text)
    \/ Resume

SpecTrain == Init /\ [][NextTrain]_vars

-----------------------------------------------------------------------------
(* What the history of train calls says.                                   *)

Contexts == [1..n -> Tokens]

\* the positions (k, i) at which tokens i..i+n-1 of the k-th trained sequence
\* have a follower
Positions ==
    UNION {{<<k, i>> : i \in 1..(Len(trained[k]) - n)} : k \in DOMAIN trained}

Ngram(ws, i) == SubSeq(ws, i, i + n - 1)

\* how often w followed c in the trained sequences
Occurrences(c, w) ==
    Cardinality({p \in Positions :
                    /\ Ngram(trained[p[1]], p[2]) = c
                    /\ trained[p[1]][p[2] + n] = w})

Followers(c) == {w \in Tokens : Occurrences(c, w) >= 1}

\* the n-grams that have a follower somewhere in the trained sequences
FollowedNgrams == {Ngram(trained[p[1]], p[2]) : p \in Positions}

TrainedTokens == UNION {Range(trained[k]) : k \in DOMAIN trained}

\* the trained sequences long enough to record a transition
LongEnough == {k \in DOMAIN trained : Len(trained[k]) >= n + 1}

LastNgram(ws) == Ngram(ws, Len(ws) - n + 1)

Stored(t, c, w) ==
    IF c \in DOMAIN t /\ w \in DOMAIN t[c] THEN t[c][w] ELSE 0

Returned(name) == op = name /\ pc = "done"

IsSentence == Returned("generate") /\ ret \notin {NotTrainedYet, NotTrainedProperly}
                  /\ ret \notin Exceptions

-----------------------------------------------------------------------------
(* Claims.                                                                 *)

\* C1: the sequence of tokens generate_sentence returns has at most
\* max_length tokens, for every model state, seed and max_length.
C1_LengthBound == IsSentence => Len(sentence) <= args.max_length

\* every train call so far had a text of fewer than n+1 tokens
OnlyShortTexts ==
    /\ trained # <<>>
    /\ \A k \in DOMAIN trained : Len(trained[k]) < n + 1

\* C2: after training only on texts of fewer than n+1 tokens,
\* generate_sentence with no seed returns "Model not trained properly."
C2_Original ==
    (Returned("generate") /\ args.start_words_is_None /\ OnlyShortTexts)
        => ret = NotTrainedProperly

\* C2 as amended: after training only on texts of fewer than n+1 tokens the
\* Vocabulary holds their tokens, no context and no Starting Context is
\* recorded, and generate_sentence with no seed returns "Model not trained
\* yet."
C2_ShortTextsNotTrainedYet ==
    OnlyShortTexts =>
        /\ vocabulary = TrainedTokens
        /\ DOMAIN transitions = {}
        /\ starting_ngrams = <<>>
        /\ (Returned("generate") /\ args.start_words_is_None)
               => ret = NotTrainedYet

C2_Witness ==
    /\ Returned("generate")
    /\ args.start_words_is_None
    /\ OnlyShortTexts
    /\ vocabulary # {}
    /\ ret = NotTrainedYet

\* C3: with a non-empty Vocabulary predict_next_word returns a token and
\* never the absent result, for any context passed to it.
C3_FallbackTotal ==
    (Returned("predict") /\ vocabulary # {}) => ret \in vocabulary

\* C4: the outcome predict_next_word reports for a context of fewer than n
\* tokens differs from the absent outcome (None, line 65) it reports when
\* no prediction is possible.
C4_ShortContextDistinct ==
    (Returned("predict") /\ branch = "short") => ret # None

\* C5: after train on a sequence of length L >= n+1 every one of its L-n+1
\* contiguous n-grams, the last one included, is a key of the Context Table.
C5_Original ==
    \A k \in LongEnough :
        \A i \in 1..(Len(trained[k]) - n + 1) :
            Ngram(trained[k], i) \in DOMAIN transitions

\* C5 as amended: each of the first L-n n-grams is a key whose follower
\* table counts its follower; the last n-gram is a key exactly when it has a
\* follower somewhere in the trained sequences; no key has an empty follower
\* table; predict_next_word takes the seen-context path exactly for the
\* n-grams that have a follower.
C5_FollowedNgramsAreKeys ==
    /\ \A k \in LongEnough :
          /\ \A i \in 1..(Len(trained[k]) - n) :
                Stored(transitions, Ngram(trained[k], i), trained[k][i + n]) >= 1
          /\ LastNgram(trained[k]) \in DOMAIN transitions
                <=> LastNgram(trained[k]) \in FollowedNgrams
    /\ \A c \in DOMAIN transitions :
          DOMAIN transitions[c] # {} /\ Sum(transitions[c]) >= 1
    /\ (Returned("predict") /\ Len(args) >= n)
          => (branch = "seen" <=> Last(args, n) \in FollowedNgrams)

C5_Witness ==
    /\ Returned("predict")
    /\ branch = "unseen"
    /\ \E k \in LongEnough : LastNgram(trained[k]) = Last(args, n)
    /\ \E k \in LongEnough : LastNgram(trained[k]) \in DOMAIN transitions

\* the stored counts are the numbers of occurrences in the history
CountsMatchHistory ==
    /\ DOMAIN transitions \subseteq Contexts
    /\ \A c \in DOMAIN transitions :
          /\ DOMAIN transitions[c] \subseteq Tokens
          /\ \A w \in DOMAIN transitions[c] : transitions[c][w] >= 1
    /\ \A c \in Contexts, w \in Tokens :
          Stored(transitions, c, w) = Occurrences(c, w)

\* a step keeps every entry and lowers no count
CountsNeverDrop ==
    \A c \in DOMAIN transitions :
        /\ c \in DOMAIN transitions'
        /\ \A w \in DOMAIN transitions[c] :
              Stored(transitions', c, w) >= transitions[c][w]

\* C6: every count of the Context Table is the number of positions of the
\* trained sequences at which the word followed the context, every stored
\* count is >= 1, and no step lowers a count or removes an entry.
C6_CountsAccumulate == [](CountsMatchHistory) /\ [][CountsNeverDrop]_vars

C6_Witness ==
    /\ Returned("train")
    /\ Len(trained) = 2
    /\ \E c \in Contexts, w \in Tokens :
          /\ Stored(transitions, c, w) >= 3
          /\ \A k \in DOMAIN trained :
                \E i \in 1..(Len(trained[k]) - n) :
                    Ngram(trained[k], i) = c /\ trained[k][i + n] = w

\* C7: only train changes the Context Table, the Vocabulary and the
\* Starting Contexts; no step of predict_next_word or generate_sentence does.
C7_ReadOnly ==
    [][(model' # model) => (pc = "idle" /\ op' = "train")]_vars

C7_Witness ==
    /\ Returned("generate")
    /\ ~args.start_words_is_None
    /\ Range(args.start_words) = {Unseen}
    /\ Len(args.start_words) < n
    /\ branch = "unseen"
    /\ Len(sentence) > n

\* C8: for a seen context the words predict_next_word can return are the
\* whole Vocabulary when alpha > 0 and the words that followed the context
\* in training when alpha = 0.
C8_Support ==
    (Returned("predict") /\ branch = "seen") =>
        /\ ret \in support
        /\ support = IF alpha > 0 THEN TrainedTokens
                     ELSE Followers(Last(args, n))

C8_Witness ==
    /\ Returned("predict")
    /\ branch = "seen"
    /\ alpha > 0
    /\ ret \notin Followers(Last(args, n))

\* C9: the Context Table is non-empty exactly when the Starting Contexts
\* are, every Starting Context is a key of the Context Table, and
\* generate_sentence never returns "Model not trained properly."
C9_StartingContextsAreKeys ==
    /\ DOMAIN transitions # {} <=> starting_ngrams # <<>>
    /\ \A i \in DOMAIN starting_ngrams :
          starting_ngrams[i] \in DOMAIN transitions
    /\ ret # NotTrainedProperly

C9_Witness ==
    /\ Returned("generate")
    /\ args.start_words_is_None
    /\ Len(trained) = 2
    /\ Len(trained[1]) = n
    /\ Len(trained[2]) = n + 1
    /\ Len(sentence) = n

\* C10: once the Context Table is non-empty, generate_sentence with
\* max_length >= n returns exactly max_length tokens for every seed: the
\* initial sequence has n tokens and the loop never stops early.
C10_ExactLength ==
    /\ pc = "extend" =>
          /\ Len(sentence) >= n
          /\ Len(sentence) + remaining = Max(n, args.max_length)
    /\ (Returned("generate") /\ DOMAIN transitions # {}
           /\ args.max_length >= n)
          => IsSentence /\ Len(sentence) = args.max_length

C10_Witness ==
    /\ Returned("generate")
    /\ ~args.start_words_is_None
    /\ args.start_words = <<Unseen>>
    /\ n = 2
    /\ args.max_length > n
    /\ Len(sentence) = args.max_length

====
